---- MODULE Spec2Model ----
EXTENDS Integers, Sequences, FiniteSets, TLC

(***************************************************************************)
(* A state-machine model of the AxiosToCurl dispatcher (src/index.js).     *)
(*                                                                         *)
(* One dispatcher instance (#defaults, #tempFiles), the filesystem of the  *)
(* temp directory, and a set of calls to request().  Every action is one   *)
(* run-to-the-next-await slice of the JavaScript: what happens between two *)
(* awaits is atomic on the event loop, an await is a point where another   *)
(* call, the subprocess or the filesystem can act.                         *)
(*                                                                         *)
(* Conventions                                                             *)
(*  - a JavaScript object is a function from its keys to values; an absent *)
(*    key is a key outside the DOMAIN (options, config, defaults);         *)
(*  - an insertion-ordered object used for iteration (headers) is a        *)
(*    sequence of [k, v] records;                                          *)
(*  - a text is a sequence of symbols: a symbol is one whitespace          *)
(*    character (" ", "\t", "\n") or one atomic run of non-whitespace      *)
(*    characters ("0.1", "hello");                                         *)
(*  - a request body is known by its kind and the number of characters it  *)
(*    is made of, so that its serialized length is computed, not chosen;   *)
(*  - a random temp-file name is the triple (prefix, call, n): names never *)
(*    collide;                                                             *)
(*  - Date.now() and the start/end/duration stamps are left out.           *)
(***************************************************************************)

\* ------------------------------------------------------------------------
\* Bounds of the model
\* ------------------------------------------------------------------------

\* largest per-call maxRetries a request is given
MaxCallRetries == 2
\* serialized body lengths run from SpoolLimit - 1 to SpoolLimit + MaxOver
MaxOver == 1
\* number of chunks the tool writes to a streamed response file
StreamChunks == 2
\* largest number of words in a captured standard output (parsing runs)
MaxWords == 8

\* ------------------------------------------------------------------------
\* Program constants
\* ------------------------------------------------------------------------

DefaultTimeout == 10000
DefaultMaxRetries == 3
SpoolLimit == 1000
BackoffBase == 2
BackoffUnitMs == 1000
\* JSON.stringify({k: s}) is {"k":"s"}: eight characters around s
JsonWrapLen == 8
MaxBufferBytes == 10485760

Calls == {"c1", "c2"}
SoloCalls == {"c1"}

\* ------------------------------------------------------------------------
\* JavaScript objects
\* ------------------------------------------------------------------------

EmptyObj == [k \in {} |-> k]

Has(obj, key) == key \in DOMAIN obj

\* {...a, ...b}: b's keys win
Spread(a, b) == b @@ a

\* insertion-ordered objects (headers): sequences of [k, v]
OKeys(om) == {om[i].k : i \in 1..Len(om)}

OGet(om, key) == LET i == CHOOSE j \in 1..Len(om) : om[j].k = key IN om[i].v

\* {...a, ...b} on ordered objects: a's keys keep their place and take b's
\* value on collision, b's new keys follow in b's order
OSpread(a, b) ==
  [i \in 1..Len(a) |-> IF a[i].k \in OKeys(b) THEN [k |-> a[i].k, v |-> OGet(b, a[i].k)] ELSE a[i]]
  \o SelectSeq(b, LAMBDA e : e.k \notin OKeys(a))

\* ------------------------------------------------------------------------
\* constructor (src/index.js 18-29)
\* ------------------------------------------------------------------------

BuiltinHeaders ==
  << [k |-> "User-Agent", v |-> "Mozilla/4.0"], [k |-> "Accept", v |-> "*/*"] >>

BuiltinDefaults ==
  [timeout |-> DefaultTimeout, maxRetries |-> DefaultMaxRetries,
   responseType |-> "json", headers |-> BuiltinHeaders]

Constructor(defaultConfig) == Spread(BuiltinDefaults, defaultConfig)

\* ------------------------------------------------------------------------
\* #mergeConfig (src/index.js 66-72)
\* ------------------------------------------------------------------------

HeadersOf(obj) == IF Has(obj, "headers") THEN obj.headers ELSE << >>

MergeConfig(dflt, opts) ==
  Spread(Spread(dflt, opts), [headers |-> OSpread(HeadersOf(dflt), HeadersOf(opts))])

\* ------------------------------------------------------------------------
\* Texts: trim, split(' '), join(' '), parseFloat, parseInt, JSON.parse
\* ------------------------------------------------------------------------

Whitespace == {" ", "\t", "\n"}

RECURSIVE TrimStart(_)
TrimStart(s) == IF s # << >> /\ Head(s) \in Whitespace THEN TrimStart(Tail(s)) ELSE s

RECURSIVE TrimEnd(_)
TrimEnd(s) ==
  IF s # << >> /\ s[Len(s)] \in Whitespace THEN TrimEnd(SubSeq(s, 1, Len(s) - 1)) ELSE s

\* String.prototype.trim
Trim(s) == TrimEnd(TrimStart(s))

\* s.split(sepSet): the fields between the separator symbols; the empty text
\* has one (empty) field, two adjacent separators have an empty field between
RECURSIVE SplitOn(_, _, _, _)
SplitOn(s, seps, cur, acc) ==
  IF s = << >> THEN Append(acc, cur)
  ELSE IF Head(s) \in seps THEN SplitOn(Tail(s), seps, << >>, Append(acc, cur))
  ELSE SplitOn(Tail(s), seps, Append(cur, Head(s)), acc)

\* stdout.trim().split(/\s+/): a reading of "split by whitespace"
SplitFieldsOnWhitespace(s) ==
  IF s = << >> THEN << << >> >>
  ELSE SelectSeq(SplitOn(s, Whitespace, << >>, << >>), LAMBDA f : f # << >>)

\* stdout.trim().split(' ')  (src/index.js 188)
SplitFields(s) == SplitOn(s, {" "}, << >>, << >>)

\* fields.join(' ')
RECURSIVE JoinFields(_)
JoinFields(fields) ==
  IF fields = << >> THEN << >>
  ELSE IF Len(fields) = 1 THEN fields[1]
  ELSE fields[1] \o << " " >> \o JoinFields(Tail(fields))

\* an array element taken by destructuring: undefined past the end
Undefined == [defined |-> FALSE, text |-> << >>]

Elem(fields, i) == IF i <= Len(fields) THEN [defined |-> TRUE, text |-> fields[i]] ELSE Undefined

\* numbers are kept in tenths; NaN is a value of its own
NaN == [nan |-> TRUE, val |-> 0]

Num(n) == [nan |-> FALSE, val |-> n]

FloatTenths == ("0.1" :> 1) @@ ("0.2" :> 2) @@ ("0.3" :> 3) @@ ("0.4" :> 4) @@ ("2" :> 20)

IntPart == ("0.1" :> 0) @@ ("0.2" :> 0) @@ ("0.3" :> 0) @@ ("0.4" :> 0) @@ ("2" :> 2)

\* parseFloat(x): leading whitespace is skipped, then the longest numeric
\* prefix is read; undefined, an empty text and a non-number give NaN
ParseFloatZeroForMissing(x) ==
  LET t == TrimStart(x.text)
  IN IF x.defined /\ t # << >> /\ Head(t) \in DOMAIN FloatTenths
     THEN Num(FloatTenths[Head(t)]) ELSE Num(0)

ParseFloat(x) ==
  LET t == TrimStart(x.text)
  IN IF x.defined /\ t # << >> /\ Head(t) \in DOMAIN FloatTenths
     THEN Num(FloatTenths[Head(t)]) ELSE NaN

\* parseInt(x, 10)
ParseInt(x) ==
  LET t == TrimStart(x.text)
  IN IF x.defined /\ t # << >> /\ Head(t) \in DOMAIN IntPart
     THEN Num(IntPart[Head(t)]) ELSE NaN

\* JSON.parse: the documents among the symbols, with whitespace allowed
\* around them; anything else throws
JsonDocs ==
  [w \in DOMAIN FloatTenths |-> [number |-> FloatTenths[w]]] @@ ("{\"a\":1}" :> [a |-> 1])

JsonValid(text) == Len(Trim(text)) = 1 /\ Trim(text)[1] \in DOMAIN JsonDocs

JsonParse(text) == JsonDocs[Trim(text)[1]]

\* ------------------------------------------------------------------------
\* Request bodies (src/index.js 112-146)
\* ------------------------------------------------------------------------

\* a string of n characters
StringBody(n) == [kind |-> "string", chars |-> n]

\* the plain object {k: s}, s a string of n characters
ObjectBody(n) == [kind |-> "object", chars |-> n]

\* a FormData of [key, binary, value] entries, in the order of entries()
FormBody(entries) == [kind |-> "form", entries |-> entries]

\* if (config.data): an absent body and the empty string are no body
DataPresent(cfg) ==
  Has(cfg, "data") /\ ~(cfg.data.kind = "string" /\ cfg.data.chars = 0)

\* typeof data === 'object' ? JSON.stringify(data) : String(data)
Serialize(data) ==
  IF data.kind = "object"
  THEN [kind |-> "text", of |-> data, len |-> data.chars + JsonWrapLen]
  ELSE [kind |-> "text", of |-> data, len |-> data.chars]

\* the work #handleData has to do, one item per body or per form entry
WorkOf(data) ==
  IF data.kind = "form"
  THEN [i \in 1..Len(data.entries) |->
          [kind |-> "form", key |-> data.entries[i].key,
           binary |-> data.entries[i].binary, value |-> data.entries[i].value]]
  ELSE << [kind |-> "regular", str |-> Serialize(data)] >>

NeedsFileFromLimitOn(item) ==
  IF item.kind = "regular" THEN item.str.len >= SpoolLimit ELSE item.binary

\* dataStr.length > 1000; value instanceof Buffer || value instanceof Uint8Array
NeedsFile(item) ==
  IF item.kind = "regular" THEN item.str.len > SpoolLimit ELSE item.binary

\* ------------------------------------------------------------------------
\* Command parts (src/index.js 74-110)
\* ------------------------------------------------------------------------

Word(w) == [part |-> "word", text |-> w]

HeaderPart(h) == [part |-> "header", key |-> h.k, value |-> h.v]

PathPart(p) == [part |-> "path", path |-> p]

InlineData(str) == [part |-> "inline-data", str |-> str]

AtFile(p) == [part |-> "data-file", path |-> p]

FormText(key, value) == [part |-> "form-text", key |-> key, value |-> value]

FormFile(key, p) == [part |-> "form-file", key |-> key, path |-> p]

UrlPart(u) == [part |-> "url", url |-> u]

WriteOutFormat ==
  "%{time_namelookup} %{time_connect} %{time_starttransfer} %{time_total} %{num_redirects} %{url_effective}"

ToUpperCase == ("get" :> "GET") @@ ("post" :> "POST") @@ ("put" :> "PUT")
               @@ ("patch" :> "PATCH") @@ ("delete" :> "DELETE")

MethodParts(cfg) ==
  IF Has(cfg, "method") /\ cfg.method # ""
  THEN << Word("-X"), Word(ToUpperCase[cfg.method]) >> ELSE << >>

HeaderParts(cfg) ==
  [j \in 1..(2 * Len(cfg.headers)) |->
     IF j % 2 = 1 THEN Word("-H") ELSE HeaderPart(cfg.headers[j \div 2])]

InlineParts(item) ==
  IF item.kind = "regular"
  THEN << Word("--data"), InlineData(item.str) >>
  ELSE << Word("-F"), FormText(item.key, item.value) >>

FileParts(item, p) ==
  IF item.kind = "regular"
  THEN << Word("--data"), AtFile(p) >>
  ELSE << Word("-F"), FormFile(item.key, p) >>

FilePrefix(item) == IF item.kind = "regular" THEN "data" ELSE "upload"

\* what writeFile puts in the file
ContentOf(item) ==
  IF item.kind = "regular" THEN item.str ELSE [kind |-> "binary", of |-> item.value]

\* join(tmpdir(), `${prefix}-${Math.random()...}`)
Path(prefix, c, n) == [prefix |-> prefix, call |-> c, n |-> n]

\* the items handled without an await: up to the first that needs a file
RECURSIVE Advance(_, _)
Advance(ps, work) ==
  IF work = << >> \/ NeedsFile(Head(work)) THEN [parts |-> ps, todo |-> work]
  ELSE Advance(ps \o InlineParts(Head(work)), Tail(work))

\* the paths a command makes the tool read
ReadPaths(ps) ==
  {ps[i].path : i \in {j \in 1..Len(ps) : ps[j].part \in {"data-file", "form-file"}}}

\* ------------------------------------------------------------------------
\* #tempFiles: a Set in insertion order.  clear() empties the entries and a
\* running iterator goes on with the entries added after it.
\* ------------------------------------------------------------------------

SetAdd(tf, p) ==
  IF \E i \in 1..Len(tf) : tf[i].live /\ tf[i].path = p THEN tf
  ELSE Append(tf, [live |-> TRUE, path |-> p])

ClearedNothing(tf) == tf

\* this.#tempFiles.clear()
Cleared(tf) == [i \in 1..Len(tf) |-> [tf[i] EXCEPT !.live = FALSE]]

LivePaths(tf) == {tf[i].path : i \in {j \in 1..Len(tf) : tf[j].live}}

\* the iterator's next entry after position pos, 0 when it is done
NextLive(tf, pos) ==
  IF \E i \in (pos + 1)..Len(tf) : tf[i].live
  THEN CHOOSE i \in (pos + 1)..Len(tf) : tf[i].live /\ \A j \in (pos + 1)..(i - 1) : ~tf[j].live
  ELSE 0

\* ------------------------------------------------------------------------
\* The filesystem of the temp directory: a set of [path, content]
\* ------------------------------------------------------------------------

Exists(files, p) == \E f \in files : f.path = p

Removed(files, p) == {f \in files : f.path # p}

Written(files, p, content) == Removed(files, p) \cup {[path |-> p, content |-> content]}

ContentAt(files, p) == (CHOOSE f \in files : f.path = p).content

\* what the tool writes to the -o file: StreamChunks chunks
BodyBytes == [kind |-> "bytes", chunks |-> [i \in 1..StreamChunks |-> i]]

PartialBytes == [kind |-> "bytes", chunks |-> << >>]

\* ------------------------------------------------------------------------
\* metadata, responses, errors (src/index.js 36-48, 159-234)
\* ------------------------------------------------------------------------

Null == [null |-> TRUE]

NewMetadata(opts) ==
  [retries |-> 0, redirects |-> Num(0), tempFiles |-> 0,
   finalUrl |-> [defined |-> TRUE, text |-> << opts.url >>],
   timings |-> [dns |-> Null, connect |-> Null, ttfb |-> Null, total |-> Null]]

Truthy(n) == n # 0

MaxRetriesOfDefaultsOnly(cfg, dflt) == dflt.maxRetries

\* config.maxRetries || this.#defaults.maxRetries
MaxRetriesOf(cfg, dflt) ==
  IF Has(cfg, "maxRetries") /\ Truthy(cfg.maxRetries) THEN cfg.maxRetries ELSE dflt.maxRetries

LoopRunsOnceMore(attempt, maxRetries) == attempt <= maxRetries + 1

\* for (let attempt = 0; attempt <= maxRetries; attempt++): the loop test
LoopRuns(attempt, maxRetries) == attempt <= maxRetries

RECURSIVE Pow(_, _)
Pow(b, e) == IF e = 0 THEN 1 ELSE b * Pow(b, e - 1)

BackoffFromOneSecond(attempt) == Pow(BackoffBase, attempt - 1) * BackoffUnitMs

\* Math.pow(2, attempt) * 1000
BackoffMs(attempt) == Pow(BackoffBase, attempt) * BackoffUnitMs

\* new Error(`Curl command failed: ${error.message}`)
CurlFailed(msg) == [error |-> "curl-failed", cause |-> msg]

\* new Error(`Curl command failed after ${maxRetries} retries: ${error.message}`)
RetriesExhausted(n, err) == [error |-> "retries-exhausted", retries |-> n, cause |-> err]

\* the ways exec() fails: a non-zero exit, the 10 MB buffer exceeded
ToolErrors == {"exit 7", "maxBuffer exceeded"}

\* the continuation of #executeCurl after exec() resolves (lines 187-230)
ResponseDataRawText(cfg, md, responseText) ==
  IF cfg.responseType = "stream" THEN [kind |-> "stream", file |-> md.outputFile]
  ELSE IF cfg.responseType = "buffer" THEN [kind |-> "buffer", bytes |-> responseText]
  ELSE [kind |-> "text", text |-> responseText]

\* "Handle different response types": the data of the response
ResponseData(cfg, md, responseText) ==
  IF cfg.responseType = "stream"
  THEN [kind |-> "stream", file |-> md.outputFile]
  ELSE IF cfg.responseType = "json"
  THEN IF JsonValid(responseText) THEN [kind |-> "parsed", json |-> JsonParse(responseText)]
       ELSE [kind |-> "text", text |-> responseText]
  ELSE IF cfg.responseType = "buffer"
  THEN [kind |-> "buffer", bytes |-> responseText]
  ELSE [kind |-> "text", text |-> responseText]

ExecuteCurl(stdout, cfg, md) ==
  LET fields == SplitFields(Trim(stdout))
      output == IF Len(fields) > 6 THEN SubSeq(fields, 7, Len(fields)) ELSE << >>
      md1 == [md EXCEPT
                !.timings = [dns |-> ParseFloat(Elem(fields, 1)),
                             connect |-> ParseFloat(Elem(fields, 2)),
                             ttfb |-> ParseFloat(Elem(fields, 3)),
                             total |-> ParseFloat(Elem(fields, 4))],
                !.redirects = ParseInt(Elem(fields, 5)),
                !.finalUrl = Elem(fields, 6)]
      text == JoinFields(output)
      data == ResponseData(cfg, md, text)
  IN [text |-> text,
      metadata |-> md1,
      response |-> [data |-> data, status |-> 200, statusText |-> "OK",
                    headers |-> EmptyObj, config |-> cfg, metadata |-> md1]]

\* ------------------------------------------------------------------------
\* State
\* ------------------------------------------------------------------------

VARIABLES
  defaults,     \* this.#defaults
  tempFiles,    \* this.#tempFiles
  fs,           \* the files of the temp directory
  pc,           \* where each call to request() stands
  options,      \* the argument of request()
  config,       \* the merged configuration
  metadata,     \* the call's metadata object
  parts,        \* the command parts pushed so far; the command once built
  todo,         \* the body items still to handle, the head being written
  attempt,      \* the loop variable of #executeCurlWithRetry
  maxRetries,   \* its local maxRetries
  lastError,    \* its local lastError
  waitMs,       \* the delay of the pending backoff timer
  result,       \* what the try block produced, carried through cleanup
  outcome,      \* how the promise returned by request() settled
  cursor,       \* the cleanup loop: the iterator position and the path being unlinked
  stream,       \* the stream handed back for responseType 'stream'
  captured,     \* the standard output of the last successful execution
  responseText, \* the local responseText of the last successful execution
  launched,     \* history: the invocations (command, exec options) made, in order
  runs,         \* history: the result of each execution, in order
  registered,   \* history: the paths each call added to #tempFiles
  unlinks       \* history: the unlink() calls made, [by, path, ok, owner in flight]

vars ==
  << defaults, tempFiles, fs, pc, options, config, metadata, parts, todo, attempt,
     maxRetries, lastError, waitMs, result, outcome, cursor, stream, captured,
     responseText, launched, runs, registered, unlinks >>

buildVars == << options, config, parts, todo >>

retryVars == << attempt, maxRetries, lastError, waitMs >>

execVars == << captured, responseText, launched, runs >>

Nothing == [none |-> TRUE]

NoStream == [state |-> "none", file |-> Nothing, content |-> Nothing, read |-> 0]

NoCursor == [pos |-> 0, path |-> Nothing]

Pending == [kind |-> "pending"]

Resolved(v) == [kind |-> "resolved", value |-> v]

Rejected(e) == [kind |-> "rejected", error |-> e]

\* the call's subprocess may still need the call's files
BeforeCleanup(c) == pc[c] \in {"spool", "built", "exec", "backoff"}

\* ------------------------------------------------------------------------
\* Inputs
\* ------------------------------------------------------------------------

\* what new AxiosToCurl(defaultConfig) is given
InstanceConfigs ==
  { EmptyObj,
    [maxRetries |-> 0],
    [maxRetries |-> 1, responseType |-> "text",
     headers |-> << [k |-> "Accept", v |-> "text/plain"] >>] }

MaxRetriesChoices == { EmptyObj } \cup { [maxRetries |-> n] : n \in -1..MaxCallRetries }

ResponseTypeChoices ==
  { EmptyObj } \cup { [responseType |-> t] : t \in {"json", "text", "buffer", "stream"} }

HeaderChoices ==
  { EmptyObj,
    [method |-> "post", timeout |-> 5000,
     headers |-> << [k |-> "X-Call", v |-> "1"], [k |-> "Accept", v |-> "application/json"] >>] }

FormChoices ==
  { << [key |-> "name", binary |-> FALSE, value |-> "test-file"] >>,
    << [key |-> "name", binary |-> FALSE, value |-> "test-file"],
       [key |-> "file", binary |-> TRUE, value |-> "Hello World"] >>,
    << [key |-> "a", binary |-> TRUE, value |-> "A"],
       [key |-> "b", binary |-> TRUE, value |-> "B"] >> }

BodyChoices ==
  { EmptyObj, [data |-> StringBody(0)] }
  \cup { [data |-> StringBody(n)] : n \in (SpoolLimit - 1)..(SpoolLimit + MaxOver) }
  \cup { [data |-> ObjectBody(n - JsonWrapLen)] : n \in SpoolLimit..(SpoolLimit + MaxOver) }
  \cup { [data |-> FormBody(f)] : f \in FormChoices }

\* the options of a call that runs alone
RequestOptions ==
  { [url |-> "https://x/"] @@ m @@ r @@ h @@ b :
      m \in MaxRetriesChoices, r \in ResponseTypeChoices, h \in HeaderChoices,
      b \in BodyChoices }

\* the options of calls that run side by side
ConcurrentOptions ==
  { [url |-> "https://x/"] @@ r @@ b :
      r \in { EmptyObj, [responseType |-> "stream"] },
      b \in { EmptyObj, [data |-> StringBody(SpoolLimit + 1)] } }

ExampleWords ==
  << "0.1", "0.2", "0.3", "0.4", "2", "https://x/final", "hello", "world", "{\"a\":1}" >>

WordAt(i) == IF i <= Len(ExampleWords) THEN ExampleWords[i] ELSE "more"

\* n words, a single space between them but for the gap after word gap, which
\* is sep (gap 0 is before the first word, gap n after the last)
StdoutOf(n, gap, sep) ==
  LET piece(i) == << WordAt(i) >> \o (IF i = gap THEN sep ELSE IF i < n THEN << " " >> ELSE << >>)
      RECURSIVE from(_)
      from(i) == IF i > n THEN << >> ELSE piece(i) \o from(i + 1)
  IN (IF gap = 0 THEN sep ELSE << >>) \o from(1)

Separators == { << " " >>, << "\t" >>, << "\n" >>, << " ", " " >> }

\* the outputs of the tool in the runs about calls
SampleOutputs == { StdoutOf(8, 8, << "\n" >>), StdoutOf(6, 0, << " " >>), StdoutOf(2, 1, << " " >>) }

\* what a run draws from: the options of request(), the outputs and the
\* failures of the tool, whether a failing tool may have begun its -o file,
\* and how unlink() of an existing file may end
SoloEnv ==
  [options |-> RequestOptions, outputs |-> SampleOutputs, errors |-> ToolErrors,
   partial |-> BOOLEAN, unlinkOk |-> BOOLEAN]

ConcurrentInstances == { [maxRetries |-> 1] }

ConcurrentEnv ==
  [options |-> ConcurrentOptions, outputs |-> { StdoutOf(8, 8, << "\n" >>) },
   errors |-> { "exit 7" }, partial |-> { FALSE }, unlinkOk |-> { TRUE }]

\* the outputs of the tool in the runs about parsing
\* bodies that are JSON documents, bare or with whitespace around them
JsonBodies ==
  { << "{\"a\":1}" >>, << "\n", "{\"a\":1}" >>, << "{\"a\":1}", "\t", "\n" >>, << "2" >>,
    << "{\"a\":1}", " ", "{\"a\":1}" >> }

\* the six trailer fields, a space, and a body
BodyOutputs == { StdoutOf(6, 6, << " " >>) \o b : b \in JsonBodies }

ParseOutputs ==
  { StdoutOf(n, g, s) : n \in 0..MaxWords, g \in 0..MaxWords, s \in Separators }
  \cup BodyOutputs

\* ------------------------------------------------------------------------
\* Init: the instance after its construction, no call made yet
\* ------------------------------------------------------------------------

InitOf(Instances) ==
  /\ defaults \in { Constructor(d) : d \in Instances }
  /\ tempFiles = << >>
  /\ fs = {}
  /\ pc = [c \in Calls |-> "idle"]
  /\ options = [c \in Calls |-> Nothing]
  /\ config = [c \in Calls |-> Nothing]
  /\ metadata = [c \in Calls |-> Nothing]
  /\ parts = [c \in Calls |-> << >>]
  /\ todo = [c \in Calls |-> << >>]
  /\ attempt = [c \in Calls |-> 0]
  /\ maxRetries = [c \in Calls |-> 0]
  /\ lastError = [c \in Calls |-> Nothing]
  /\ waitMs = [c \in Calls |-> 0]
  /\ result = [c \in Calls |-> Pending]
  /\ outcome = [c \in Calls |-> Pending]
  /\ cursor = [c \in Calls |-> NoCursor]
  /\ stream = [c \in Calls |-> NoStream]
  /\ captured = [c \in Calls |-> << >>]
  /\ responseText = [c \in Calls |-> << >>]
  /\ launched = [c \in Calls |-> << >>]
  /\ runs = [c \in Calls |-> << >>]
  /\ registered = [c \in Calls |-> {}]
  /\ unlinks = {}

\* ------------------------------------------------------------------------
\* request(), #mergeConfig and #buildCurlCommand up to its first await
\* (src/index.js 35-52, 66-72, 74-118)
\* ------------------------------------------------------------------------

\* the parts pushed before the body is looked at (lines 75-99)
CommandHead(cfg, outputFile) ==
  << Word("curl"), Word("--write-out"), Word(WriteOutFormat) >>
  \o MethodParts(cfg) \o HeaderParts(cfg) \o << Word("--location") >>
  \o (IF cfg.responseType = "stream" THEN << Word("-o"), PathPart(outputFile) >> ELSE << >>)

\* the end of #buildCurlCommand once no item is left (lines 106-109)
Finish(c, adv) ==
  /\ parts' = [parts EXCEPT ![c] =
                 IF adv.todo = << >> THEN Append(adv.parts, UrlPart(config'[c].url)) ELSE adv.parts]
  /\ todo' = [todo EXCEPT ![c] = adv.todo]
  /\ pc' = [pc EXCEPT ![c] = IF adv.todo = << >> THEN "built" ELSE "spool"]

Request(c, env) ==
  /\ pc[c] = "idle"
  /\ \E o \in env.options :
       LET cfg == MergeConfig(defaults, o)
           isStream == cfg.responseType = "stream"
           outputFile == Path("response", c, 0)
           md == IF isStream THEN NewMetadata(o) @@ [outputFile |-> outputFile]
                 ELSE NewMetadata(o)
           work == IF DataPresent(cfg) THEN WorkOf(cfg.data) ELSE << >>
       IN /\ options' = [options EXCEPT ![c] = o]
          /\ config' = [config EXCEPT ![c] = cfg]
          /\ metadata' = [metadata EXCEPT ![c] = md]
          /\ tempFiles' = IF isStream THEN SetAdd(tempFiles, outputFile) ELSE tempFiles
          /\ registered' = [registered EXCEPT ![c] = IF isStream THEN {outputFile} ELSE {}]
          /\ Finish(c, Advance(CommandHead(cfg, outputFile), work))
  /\ UNCHANGED << defaults, fs, retryVars, result, outcome, cursor, stream, execVars, unlinks >>

\* writeFile() resolved: the file is there; it is registered and counted, its
\* part pushed, and the items after it handled up to the next await
\* (lines 124-128, 137-141)
WriteDone(c) ==
  /\ pc[c] = "spool"
  /\ LET item == Head(todo[c])
         tmpFile == Path(FilePrefix(item), c, metadata[c].tempFiles + 1)
     IN /\ fs' = Written(fs, tmpFile, ContentOf(item))
        /\ tempFiles' = SetAdd(tempFiles, tmpFile)
        /\ registered' = [registered EXCEPT ![c] = @ \cup {tmpFile}]
        /\ metadata' = [metadata EXCEPT ![c].tempFiles = @ + 1]
        /\ config' = config
        /\ Finish(c, Advance(parts[c] \o FileParts(item, tmpFile), Tail(todo[c])))
  /\ UNCHANGED << defaults, options, retryVars, result, outcome, cursor, stream,
                  execVars, unlinks >>

\* writeFile() rejected: the error leaves #buildCurlCommand and reaches the
\* catch of request() (lines 59-62)
WriteFail(c) ==
  /\ pc[c] = "spool"
  /\ result' = [result EXCEPT ![c] = Rejected([error |-> "write-failed"])]
  /\ pc' = [pc EXCEPT ![c] = "cleanup"]
  /\ UNCHANGED << defaults, tempFiles, fs, buildVars, metadata, retryVars, outcome,
                  cursor, stream, execVars, registered, unlinks >>

\* ------------------------------------------------------------------------
\* #executeCurlWithRetry and #executeCurl (src/index.js 159-234)
\* ------------------------------------------------------------------------

\* the options object handed to exec(): { maxBuffer: 1024 * 1024 * 10 }
ExecOptions == [maxBuffer |-> MaxBufferBytes]

\* execAsync(curlCommand, { maxBuffer }): the subprocess is started
Launch(c) ==
  launched' = [launched EXCEPT ![c] = Append(@, [command |-> parts[c], options |-> ExecOptions])]

\* the loop is entered: attempt 0 runs at once, if the loop runs at all
EnterRetryLoop(c) ==
  /\ pc[c] = "built"
  /\ LET n == MaxRetriesOf(config[c], defaults)
     IN /\ maxRetries' = [maxRetries EXCEPT ![c] = n]
        /\ attempt' = [attempt EXCEPT ![c] = 0]
        /\ IF LoopRuns(0, n)
           THEN /\ Launch(c)
                /\ pc' = [pc EXCEPT ![c] = "exec"]
                /\ result' = result
           ELSE /\ launched' = launched
                /\ pc' = [pc EXCEPT ![c] = "cleanup"]
                /\ result' = [result EXCEPT ![c] = Resolved([undefined |-> TRUE])]
  /\ UNCHANGED << defaults, tempFiles, fs, buildVars, metadata, lastError, waitMs, outcome,
                  cursor, stream, captured, responseText, runs, registered, unlinks >>

\* the subprocess exits 0 with its output captured; in stream mode it has
\* written the -o file.  The response is built and returned (lines 187-230).
ExecOk(c, env) ==
  /\ pc[c] = "exec"
  /\ \A p \in ReadPaths(parts[c]) : Exists(fs, p)
  /\ \E stdout \in env.outputs :
       LET r == ExecuteCurl(stdout, config[c], metadata[c])
           isStream == config[c].responseType = "stream"
       IN /\ captured' = [captured EXCEPT ![c] = stdout]
          /\ responseText' = [responseText EXCEPT ![c] = IF isStream THEN @ ELSE r.text]
          /\ metadata' = [metadata EXCEPT ![c] = r.metadata]
          /\ result' = [result EXCEPT ![c] = Resolved(r.response)]
          /\ fs' = IF isStream THEN Written(fs, metadata[c].outputFile, BodyBytes) ELSE fs
          /\ stream' = [stream EXCEPT ![c] =
                          IF isStream
                          THEN [state |-> "opening", file |-> metadata[c].outputFile,
                                content |-> Nothing, read |-> 0]
                          ELSE @]
  /\ runs' = [runs EXCEPT ![c] = Append(@, "ok")]
  /\ pc' = [pc EXCEPT ![c] = "cleanup"]
  /\ UNCHANGED << defaults, tempFiles, buildVars, retryVars, outcome, cursor, launched,
                  registered, unlinks >>

\* the subprocess fails (in stream mode it may have begun the -o file): the
\* error is kept; on the last attempt the fatal error is thrown, otherwise
\* the next attempt counts its retry and starts its backoff timer
\* (lines 163-177, 231-233)
ExecFail(c, env) ==
  /\ pc[c] = "exec"
  /\ \E msg \in env.errors :
     \E began \in IF config[c].responseType = "stream" THEN env.partial ELSE {FALSE} :
       LET error == CurlFailed(msg)
           next == attempt[c] + 1
       IN /\ lastError' = [lastError EXCEPT ![c] = error]
          /\ fs' = IF began THEN Written(fs, metadata[c].outputFile, PartialBytes) ELSE fs
          /\ IF attempt[c] = maxRetries[c]
             THEN /\ result' = [result EXCEPT ![c] =
                                  Rejected(RetriesExhausted(maxRetries[c], error))]
                  /\ pc' = [pc EXCEPT ![c] = "cleanup"]
                  /\ UNCHANGED << attempt, metadata, waitMs >>
             ELSE /\ attempt' = [attempt EXCEPT ![c] = next]
                  /\ IF LoopRuns(next, maxRetries[c])
                     THEN /\ metadata' = [metadata EXCEPT ![c].retries = @ + 1]
                          /\ waitMs' = [waitMs EXCEPT ![c] = BackoffMs(next)]
                          /\ pc' = [pc EXCEPT ![c] = "backoff"]
                          /\ result' = result
                     ELSE /\ result' = [result EXCEPT ![c] = Resolved([undefined |-> TRUE])]
                          /\ pc' = [pc EXCEPT ![c] = "cleanup"]
                          /\ UNCHANGED << metadata, waitMs >>
  /\ runs' = [runs EXCEPT ![c] = Append(@, "fail")]
  /\ UNCHANGED << defaults, tempFiles, buildVars, maxRetries, outcome, cursor, stream,
                  captured, responseText, launched, registered, unlinks >>

\* the backoff timer fires and the same command is executed again
BackoffDone(c) ==
  /\ pc[c] = "backoff"
  /\ waitMs' = [waitMs EXCEPT ![c] = 0]
  /\ Launch(c)
  /\ pc' = [pc EXCEPT ![c] = "exec"]
  /\ UNCHANGED << defaults, tempFiles, fs, buildVars, metadata, attempt, maxRetries,
                  lastError, result, outcome, cursor, stream, captured, responseText,
                  runs, registered, unlinks >>

\* ------------------------------------------------------------------------
\* #cleanupTempFiles and the end of request() (src/index.js 55-63, 148-157)
\* ------------------------------------------------------------------------

\* the for-of loop moves on from position pos: the next unlink() is issued,
\* or the loop is over, the set is cleared and request() settles
ResumeFromEndOnFailure(tf, pos, ok) == IF ok THEN pos ELSE Len(tf)

\* try { await unlink(file) } catch { console.warn(...) }: whether or not the
\* unlink failed, the for-of loop goes on from the entry it was at
ResumeFrom(tf, pos, ok) == pos

CleanupFrom(c, pos) ==
  LET nxt == NextLive(tempFiles, pos)
  IN IF nxt # 0
     THEN /\ cursor' = [cursor EXCEPT ![c] = [pos |-> nxt, path |-> tempFiles[nxt].path]]
          /\ pc' = [pc EXCEPT ![c] = "unlink"]
          /\ UNCHANGED << tempFiles, outcome >>
     ELSE /\ cursor' = [cursor EXCEPT ![c] = NoCursor]
          /\ tempFiles' = Cleared(tempFiles)
          /\ outcome' = [outcome EXCEPT ![c] = result[c]]
          /\ pc' = [pc EXCEPT ![c] = "done"]

CleanupStart(c) ==
  /\ pc[c] = "cleanup"
  /\ CleanupFrom(c, 0)
  /\ UNCHANGED << defaults, fs, buildVars, metadata, retryVars, result, stream, execVars,
                  registered, unlinks >>

\* unlink() settles: the file is gone, or the failure is warned about and
\* dropped (a missing file always fails); the loop moves on
UnlinkDone(c, env) ==
  /\ pc[c] = "unlink"
  /\ \E ok \in IF Exists(fs, cursor[c].path) THEN env.unlinkOk ELSE {FALSE} :
       /\ fs' = IF ok THEN Removed(fs, cursor[c].path) ELSE fs
       /\ unlinks' = unlinks \cup {[by |-> c, path |-> cursor[c].path, ok |-> ok]}
       /\ CleanupFrom(c, ResumeFrom(tempFiles, cursor[c].pos, ok))
  /\ UNCHANGED << defaults, buildVars, metadata, retryVars, result, stream, execVars,
                  registered >>

\* ------------------------------------------------------------------------
\* The stream handed back (src/index.js 203-208) and its consumer
\* ------------------------------------------------------------------------

streamFrame ==
  << defaults, tempFiles, fs, pc, buildVars, metadata, retryVars, result, outcome, cursor,
     execVars, registered, unlinks >>

\* createReadStream opens the file some time after it is called: the open
\* finds the file, or fails and the pipeline's error is logged
StreamOpen(c) ==
  /\ stream[c].state = "opening"
  /\ LET file == stream[c].file
     IN stream' = [stream EXCEPT ![c] =
                     IF Exists(fs, file)
                     THEN [state |-> IF Len(ContentAt(fs, file).chunks) = 0
                                     THEN "ended" ELSE "open",
                           file |-> file, content |-> ContentAt(fs, file), read |-> 0]
                     ELSE [state |-> "error", file |-> file, content |-> Nothing, read |-> 0]]
  /\ UNCHANGED streamFrame

\* the caller, holding the response, reads the next chunk
StreamRead(c) ==
  /\ pc[c] = "done"
  /\ stream[c].state = "open"
  /\ stream' = [stream EXCEPT ![c] =
                  [@ EXCEPT !.read = @ + 1,
                            !.state = IF stream[c].read + 1 = Len(stream[c].content.chunks)
                                      THEN "ended" ELSE "open"]]
  /\ UNCHANGED streamFrame

\* the caller destroys the stream before its end
StreamAbandon(c) ==
  /\ pc[c] = "done"
  /\ stream[c].state \in {"opening", "open"}
  /\ stream' = [stream EXCEPT ![c].state = "abandoned"]
  /\ UNCHANGED streamFrame

\* ------------------------------------------------------------------------
\* Specifications
\* ------------------------------------------------------------------------

Step(c, env) ==
  \/ Request(c, env)
  \/ WriteDone(c)
  \/ WriteFail(c)
  \/ EnterRetryLoop(c)
  \/ ExecOk(c, env)
  \/ ExecFail(c, env)
  \/ BackoffDone(c)
  \/ CleanupStart(c)
  \/ UnlinkDone(c, env)
  \/ StreamOpen(c)
  \/ StreamRead(c)
  \/ StreamAbandon(c)

Init == InitOf(InstanceConfigs)

\* one call, alone on its instance
Next == \E c \in SoloCalls : Step(c, SoloEnv)

Spec == Init /\ [][Next]_vars

\* calls side by side on one instance
InitConcurrent == InitOf(ConcurrentInstances)

NextConcurrent == \E c \in Calls : Step(c, ConcurrentEnv)

SpecConcurrent == InitConcurrent /\ [][NextConcurrent]_vars

\* the runs about parsing: calls without files, every shape of output
ParseEnv ==
  [options |-> { [url |-> "https://x/", maxRetries |-> 1] @@ r :
                   r \in { [responseType |-> t] : t \in {"json", "text", "buffer"} } },
   outputs |-> ParseOutputs, errors |-> { "exit 7" }, partial |-> { FALSE },
   unlinkOk |-> { TRUE }]

InitParse == InitOf({ EmptyObj })

NextParse ==
  \E c \in SoloCalls :
    \/ Request(c, ParseEnv)
    \/ EnterRetryLoop(c)
    \/ ExecOk(c, ParseEnv)
    \/ ExecFail(c, ParseEnv)
    \/ BackoffDone(c)
    \/ CleanupStart(c)

SpecParse == InitParse /\ [][NextParse]_vars

\* ------------------------------------------------------------------------
\* Properties
\* ------------------------------------------------------------------------

\* the command of call c was built: no writeFile() failed on the way
Built(c) == pc[c] \notin {"idle", "spool"} /\ todo[c] = << >>

Settled(c) == pc[c] = "done"

\* the maxRetries of the merged configuration
Configured(c) == config[c].maxRetries

IsPrefix(a, b) == Len(a) <= Len(b) /\ a = SubSeq(b, 1, Len(a))

\* a tool that fails n times and then succeeds
FailsThenOk(n) == [i \in 1..(n + 1) |-> IF i <= n THEN "fail" ELSE "ok"]

AllFail(rs) == \A i \in 1..Len(rs) : rs[i] = "fail"

IsResponse(v) == Has(v, "data") /\ Has(v, "metadata")

\* C1: with maxRetries = N >= 0 and a tool that fails its first N executions
\* and succeeds on the next, a settled call has run the command N+1 times, is
\* resolved with the response of that last execution and reports retries = N.
C1_RetryThenSuccess ==
  \A c \in Calls :
    (Settled(c) /\ Built(c) /\ Configured(c) >= 0
       /\ IsPrefix(runs[c], FailsThenOk(Configured(c))))
    => /\ runs[c] = FailsThenOk(Configured(c))
       /\ Len(launched[c]) = Configured(c) + 1
       /\ outcome[c].kind = "resolved"
       /\ IsResponse(outcome[c].value)
       /\ outcome[c].value.metadata.retries = Configured(c)

C1_Witness ==
  /\ Settled("c1") /\ Built("c1")
  /\ Configured("c1") = 2
  /\ runs["c1"] = << "fail", "fail", "ok" >>
  /\ outcome["c1"].kind = "resolved"

\* C2: with maxRetries = N >= 0 (N = 0 included) and a tool that fails every
\* execution, a settled call is rejected after exactly N+1 executions, with an
\* error that names N and the last underlying error.
C2_AlwaysFailing ==
  \A c \in Calls :
    (Settled(c) /\ Built(c) /\ Configured(c) >= 0 /\ AllFail(runs[c]))
    => /\ outcome[c].kind = "rejected"
       /\ Len(runs[c]) = Configured(c) + 1
       /\ outcome[c].error = RetriesExhausted(Configured(c), lastError[c])

\* C3: when a call that runs alone settles, whatever its outcome, unlink() has
\* been called on every path it registered and the temp-file set is empty.
C3_CleanupOnSettle ==
  \A c \in Calls :
    Settled(c)
    => /\ \A p \in registered[c] : \E u \in unlinks : u.path = p /\ u.by = c
       /\ LivePaths(tempFiles) = {}

C3_Witness ==
  /\ Settled("c1")
  /\ outcome["c1"] = Rejected([error |-> "write-failed"])
  /\ Cardinality(registered["c1"]) = 2

\* C4: the cleanup of one call never unlinks, nor removes from the set, a path
\* registered by another call whose subprocess may still need it.
C4_NoForeignCleanup ==
  \A d \in Calls :
    BeforeCleanup(d)
    => /\ registered[d] \subseteq LivePaths(tempFiles)
       /\ \A u \in unlinks : u.path \in registered[d] => u.by = d

\* C5: the output file of a streamed response is not deleted while the stream
\* handed back has unread bytes (not before it is opened either), and a stream
\* read to its end has given the bytes the tool wrote.
C5_StreamFileOutlivesReading ==
  \A c \in Calls :
    /\ (stream[c].state # "none" /\ ~Exists(fs, stream[c].file))
         => stream[c].state \in {"ended", "abandoned"}
    /\ stream[c].state = "ended" => stream[c].read = Len(BodyBytes.chunks)

\* C6 as claimed: attempt k >= 1 waits before it counts its retry, so retries
\* is still k-1 while the wait for attempt k is pending.
C6_WaitThenCount ==
  \A c \in Calls : pc[c] = "backoff" => metadata[c].retries = attempt[c] - 1

\* C6 as amended: attempt 0 runs with no wait; attempt k >= 1 counts its retry
\* first, then waits 2^k seconds, then runs the same command: retries is k
\* while the wait for attempt k is pending, and k executions have been made.
C6_CountThenWait ==
  \A c \in Calls :
    /\ pc[c] = "backoff"
         => /\ attempt[c] >= 1
            /\ metadata[c].retries = attempt[c]
            /\ waitMs[c] = (2 ^ attempt[c]) * 1000
            /\ Len(launched[c]) = attempt[c]
    /\ pc[c] = "exec"
         => /\ waitMs[c] = 0
            /\ metadata[c].retries = attempt[c]
            /\ Len(launched[c]) = attempt[c] + 1
    /\ \A i \in 1..Len(launched[c]) : launched[c][i] = launched[c][1]

C6_Witness ==
  /\ pc["c1"] = "backoff"
  /\ attempt["c1"] = 2
  /\ waitMs["c1"] = 4000

\* the whitespace-separated tokens of a text
Tokens(t) == SelectSeq(SplitOn(t, Whitespace, << >>, << >>), LAMBDA f : f # << >>)

SpaceCount(t) == Cardinality({i \in 1..Len(t) : t[i] = " "})

\* the position of the n-th space character of a text
SpaceAt(t, n) ==
  CHOOSE i \in 1..Len(t) : t[i] = " " /\ Cardinality({j \in 1..i : t[j] = " "}) = n

\* what stands between the (n-1)-th and the n-th space character
Stretch(t, n) ==
  SubSeq(t, IF n = 1 THEN 1 ELSE SpaceAt(t, n - 1) + 1,
            IF n > SpaceCount(t) THEN Len(t) ELSE SpaceAt(t, n) - 1)

\* what follows the n-th space character
AfterSpace(t, n) == IF SpaceCount(t) >= n THEN SubSeq(t, SpaceAt(t, n) + 1, Len(t)) ELSE << >>

Defined(text) == [defined |-> TRUE, text |-> text]

\* the last execution of call c succeeded and its output was parsed
Parsed(c) ==
  /\ pc[c] \in {"cleanup", "unlink", "done"}
  /\ runs[c] # << >>
  /\ runs[c][Len(runs[c])] = "ok"

\* C7 as claimed: of an output with at least six whitespace-separated tokens
\* (any whitespace, runs of it too) tokens 1-4 give the timings, token 5 the
\* redirects, token 6 the final URL, and the body text is the other tokens
\* joined with single spaces.
C7_WhitespaceTokens ==
  \A c \in Calls :
    LET tok == Tokens(captured[c])
    IN (Parsed(c) /\ Len(tok) >= 6)
       => /\ metadata[c].timings =
               [dns |-> ParseFloat(Defined(tok[1])), connect |-> ParseFloat(Defined(tok[2])),
                ttfb |-> ParseFloat(Defined(tok[3])), total |-> ParseFloat(Defined(tok[4]))]
          /\ metadata[c].redirects = ParseInt(Defined(tok[5]))
          /\ metadata[c].finalUrl = Defined(tok[6])
          /\ responseText[c] = JoinFields(SubSeq(tok, 7, Len(tok)))

\* C7 as amended: fields are separated by single space characters only.  Of an
\* output that, trimmed, holds at least five space characters, what stands
\* before the first space and between the next ones gives the timings, the
\* redirects and the final URL, and the body text is what follows the sixth
\* space, unchanged (empty when there is no sixth space).
C7_SingleSpaceFields ==
  \A c \in Calls :
    LET t == Trim(captured[c])
    IN (Parsed(c) /\ SpaceCount(t) >= 5)
       => /\ metadata[c].timings =
               [dns |-> ParseFloat(Defined(Stretch(t, 1))),
                connect |-> ParseFloat(Defined(Stretch(t, 2))),
                ttfb |-> ParseFloat(Defined(Stretch(t, 3))),
                total |-> ParseFloat(Defined(Stretch(t, 4)))]
          /\ metadata[c].redirects = ParseInt(Defined(Stretch(t, 5)))
          /\ metadata[c].finalUrl = Defined(Stretch(t, 6))
          /\ responseText[c] = AfterSpace(t, 6)

C7_Witness ==
  /\ Parsed("c1")
  /\ captured["c1"] = StdoutOf(8, 7, << "\n" >>)
  /\ responseText["c1"] = << "hello", "\n", "world" >>

\* C8 as claimed: when the tool succeeds with fewer than six tokens of output,
\* the call does not resolve with a response: it fails.
C8_MalformedTrailerFaults ==
  \A c \in Calls :
    (Settled(c) /\ Parsed(c) /\ Len(Tokens(captured[c])) < 6)
    => outcome[c].kind = "rejected"

\* C8 as amended: when the tool succeeds with fewer than six tokens of output,
\* the call resolves with a response all the same: a timing or the redirect
\* count whose field is missing is NaN, a missing final URL is undefined, and
\* the body text is empty when there is no seventh field.
C8_MalformedTrailerResolves ==
  \A c \in Calls :
    (Settled(c) /\ Parsed(c) /\ Len(Tokens(captured[c])) < 6)
    => LET n == SpaceCount(Trim(captured[c])) + 1
           v == outcome[c].value
       IN /\ outcome[c].kind = "resolved"
          /\ IsResponse(v)
          /\ v.status = 200
          /\ n < 1 => v.metadata.timings.dns = NaN
          /\ n < 2 => v.metadata.timings.connect = NaN
          /\ n < 3 => v.metadata.timings.ttfb = NaN
          /\ n < 4 => v.metadata.timings.total = NaN
          /\ n < 5 => v.metadata.redirects = NaN
          /\ n < 6 => v.metadata.finalUrl = Undefined
          /\ n < 7 => responseText[c] = << >>

C8_Witness ==
  /\ Settled("c1") /\ Parsed("c1")
  /\ captured["c1"] = << "0.1", " ", "0.2" >>
  /\ outcome["c1"].kind = "resolved"
  /\ outcome["c1"].value.metadata.timings.total = NaN

\* the header value of key k under "the per-call value wins"
ExpectedHeader(c, k) ==
  IF k \in OKeys(HeadersOf(options[c])) THEN OGet(HeadersOf(options[c]), k)
  ELSE OGet(HeadersOf(defaults), k)

\* C9: the configuration a call acts on has, for each header key, the per-call
\* value if there is one and the default otherwise, and for every other option
\* the per-call value when the option is present (0 included), the default
\* only when it is absent; the retry loop runs with that maxRetries.
C9_PerCallOptionsInEffect ==
  \A c \in Calls :
    pc[c] # "idle"
    => /\ OKeys(config[c].headers) = OKeys(HeadersOf(options[c])) \cup OKeys(HeadersOf(defaults))
       /\ \A k \in OKeys(config[c].headers) : OGet(config[c].headers, k) = ExpectedHeader(c, k)
       /\ \A k \in DOMAIN options[c] \ {"headers"} : config[c][k] = options[c][k]
       /\ \A k \in DOMAIN defaults \ (DOMAIN options[c] \cup {"headers"}) :
            config[c][k] = defaults[k]
       /\ (Built(c) /\ pc[c] # "built")
            => maxRetries[c] = IF Has(options[c], "maxRetries") THEN options[c].maxRetries
                               ELSE defaults.maxRetries

\* the length of the serialized body, counted from the body itself
SerializedLength(data) == IF data.kind = "object" THEN data.chars + 8 ELSE data.chars

Freeform(c) == pc[c] # "idle" /\ DataPresent(config[c]) /\ config[c].data.kind # "form"

PartsOf(c, kind) == {i \in 1..Len(parts[c]) : parts[c][i].part = kind}

DataFiles(c) == {p \in registered[c] : p.prefix = "data"}

\* C10: for a freeform body of serialized length L, a built command embeds the
\* serialized value and no temp file is made when L <= 1000; when L > 1000
\* exactly one temp file holding the serialized value is made and the command
\* refers to it by path, and once the call has settled, resolved or rejected,
\* that file has been unlinked: it is gone unless the unlink itself failed.
C10_SpoolAboveLimit ==
  \A c \in Calls :
    (Freeform(c) /\ Built(c))
    => LET L == SerializedLength(config[c].data)
           str == [kind |-> "text", of |-> config[c].data, len |-> L]
       IN IF L <= 1000
          THEN /\ \E i \in 1..Len(parts[c]) :
                    /\ PartsOf(c, "inline-data") = {i}
                    /\ parts[c][i].str = str
               /\ PartsOf(c, "data-file") = {}
               /\ DataFiles(c) = {}
               /\ metadata[c].tempFiles = 0
          ELSE /\ PartsOf(c, "inline-data") = {}
               /\ Cardinality(DataFiles(c)) = 1
               /\ metadata[c].tempFiles = 1
               /\ \A p \in DataFiles(c) :
                    /\ \E i \in 1..Len(parts[c]) :
                         PartsOf(c, "data-file") = {i} /\ parts[c][i].path = p
                    /\ Exists(fs, p) => ContentAt(fs, p) = str
                    /\ Settled(c)
                         => \/ ~Exists(fs, p)
                            \/ [by |-> c, path |-> p, ok |-> FALSE] \in unlinks

C10_Witness ==
  /\ Settled("c1") /\ Freeform("c1") /\ Built("c1")
  /\ SerializedLength(config["c1"].data) = 1001
  /\ config["c1"].data.kind = "object"
  /\ outcome["c1"].kind = "rejected"
  /\ \A p \in DataFiles("c1") : ~Exists(fs, p)

\* C11: a settled call has one of two outcomes: it is resolved with a response
\* object, or it is rejected with an error; it is never resolved without a
\* response, whatever maxRetries it was given.
C11_ResponseOrError ==
  \A c \in Calls :
    Settled(c)
    => \/ outcome[c].kind = "resolved" /\ IsResponse(outcome[c].value)
       \/ outcome[c].kind = "rejected" /\ Has(outcome[c].error, "error")

\* the call is inside or past its retry loop
InLoop(c) == pc[c] \in {"exec", "backoff", "cleanup", "unlink", "done"}

\* executions of call c started and not yet ended
InFlight(c) == Len(launched[c]) - Len(runs[c])

CarriesTimeout(inv, t) ==
  \/ Has(inv.options, "timeout") /\ inv.options.timeout = t
  \/ \E j \in 1..Len(inv.command) :
       /\ inv.command[j].part = "word"
       /\ inv.command[j] \in {Word(ToString(t)), Word(ToString(t \div 1000))}

\* C13: every invocation made for a call carries the call's timeout (the
\* default, or the per-call override), so that invocations of configurations
\* differing only in timeout differ.
C13_TimeoutPassedThrough ==
  \A c \in Calls :
    \A i \in 1..Len(launched[c]) : CarriesTimeout(launched[c][i], config[c].timeout)

\* the unlinks call c has made
UnlinksBy(c) == {u \in unlinks : u.by = c}

\* C14: when a call that runs alone settles, every path it registered has been
\* attempted whether or not another deletion failed, every path whose deletion
\* succeeded is gone, the set is cleared, and the outcome is the result the
\* call had before cleanup began and never a cleanup failure; another cleanup
\* at that point would unlink nothing and leave the set as it is, and a call
\* that registered nothing has unlinked nothing.
C14_CleanupIsolatedIdempotent ==
  \A c \in Calls :
    Settled(c)
    => /\ \A p \in registered[c] : \E u \in UnlinksBy(c) : u.path = p
       /\ \A u \in UnlinksBy(c) : u.ok => ~Exists(fs, u.path)
       /\ outcome[c] = result[c]
       /\ outcome[c].kind \in {"resolved", "rejected"}
       /\ NextLive(tempFiles, 0) = 0
       /\ Cleared(tempFiles) = tempFiles
       /\ registered[c] = {} => UnlinksBy(c) = {}

\* a deletion failed and left its file behind, and a path later in the set
\* was deleted all the same
C14_Witness ==
  /\ Settled("c1")
  /\ \E i, j \in 1..Len(tempFiles) :
       /\ i < j
       /\ [by |-> "c1", path |-> tempFiles[i].path, ok |-> FALSE] \in unlinks
       /\ Exists(fs, tempFiles[i].path)
       /\ [by |-> "c1", path |-> tempFiles[j].path, ok |-> TRUE] \in unlinks
       /\ ~Exists(fs, tempFiles[j].path)

\* the one-document text of the round trip
DocA == << "{\"a\":1}" >>

\* C15: after a successful execution the call has a response and starts no
\* further execution, whatever the body text; under 'json' its data is the
\* parsed value when the text is a JSON document (whitespace around it
\* allowed) and the raw text unchanged when it is not; under 'text' it is the
\* text unchanged; under 'buffer' it is the bytes of the text.  The text
\* {"a":1} gives { a: 1 } under 'json' and itself under 'text'.
C15_DataByResponseType ==
  \A c \in Calls :
    Parsed(c)
    => LET t == responseText[c]
           rt == config[c].responseType
           data == result[c].value.data
           core == Trim(t)
           isDoc == Len(core) = 1 /\ core[1] \in DOMAIN JsonDocs
       IN /\ result[c].kind = "resolved"
          /\ IsResponse(result[c].value)
          /\ Len(launched[c]) = Len(runs[c])
          /\ (rt = "json" /\ isDoc) => data = [kind |-> "parsed", json |-> JsonDocs[core[1]]]
          /\ (rt = "json" /\ ~isDoc) => data = [kind |-> "text", text |-> t]
          /\ rt = "text" => data = [kind |-> "text", text |-> t]
          /\ rt = "buffer" => data = [kind |-> "buffer", bytes |-> t]
          /\ (rt = "json" /\ t = DocA) => data = [kind |-> "parsed", json |-> [a |-> 1]]
          /\ (rt = "text" /\ t = DocA) => data = [kind |-> "text", text |-> DocA]

C15_Witness ==
  /\ Settled("c1") /\ Parsed("c1")
  /\ config["c1"].responseType = "json"
  /\ responseText["c1"] = DocA
  /\ outcome["c1"].kind = "resolved"
  /\ outcome["c1"].value.data = [kind |-> "parsed", json |-> [a |-> 1]]

\* C16: once every call made on the instance has settled, none of the
\* temporary files created for them is left on the filesystem (unlink itself
\* not failing).
C16_NoFileLeftBehind ==
  (\A c \in Calls : Settled(c)) => fs = {}

\* C17: the tempFiles count of the response a call resolves with is the number
\* of paths the call registered in the temp-file set: spooled bodies, spooled
\* binary form parts and the stream output file.
C17_TempFilesCountsRegistered ==
  \A c \in Calls :
    (Settled(c) /\ outcome[c].kind = "resolved" /\ IsResponse(outcome[c].value))
    => outcome[c].value.metadata.tempFiles = Cardinality(registered[c])

====
